---- MODULE Spec2Model ----
(***************************************************************************)
(* Model of the Configuration class of src/config.py: the constructor,    *)
(* its three validation methods, the wrapping of their errors, and the    *)
(* to_dict summary.                                                       *)
(*                                                                         *)
(* Text is a sequence of Unicode code points, so that the regular         *)
(* expression, str.lower() and the URL parse are computed character by    *)
(* character.  A Python value is a record [t, s, n]: its type, its text   *)
(* (str, bytes) and its number (int).                                     *)
(***************************************************************************)
EXTENDS Integers, Sequences, FiniteSets, TLC

VARIABLES
    args,            \* the arguments of the constructor call
    package_name,    \* self.package_name
    repository,      \* self.repository
    test_repo_mode,  \* self.test_repo_mode
    is_url,          \* self.is_url
    pc,              \* position of the call: the next check, or a terminal state
    caught,          \* the exception raised by a check (before wrapping)
    raised,          \* the exception that leaves the constructor
    fs,              \* kind of the filesystem entry named by the repository argument
    result,          \* the local `result` of urlparse in _validate_repository
    checksRun,       \* history: the checks run so far, in order, with their outcome
    statLog,         \* history: the filesystem calls made so far and what they saw
    fsAtCheck,       \* history: the value of fs when _validate_repository ran
    summary          \* the last value returned by to_dict

vars == <<args, package_name, repository, test_repo_mode, is_url, pc, caught,
          raised, fs, result, checksRun, statLog, fsAtCheck, summary>>

-----------------------------------------------------------------------------
(* Bounds of the input sets *)

MaxAffixLen == 1    \* length of the free head and of the free tail of a package name
MaxRestLen == 2     \* length of the free part of a repository reference
MaxModeLen == 3     \* length of a mode string

-----------------------------------------------------------------------------
(* Python values *)

Str(s) == [t |-> "str", s |-> s, n |-> 0]
Bytes(s) == [t |-> "bytes", s |-> s, n |-> 0]
PyInt(n) == [t |-> "int", s |-> <<>>, n |-> n]
None == [t |-> "NoneType", s |-> <<>>, n |-> 0]
Omitted == [t |-> "omitted", s |-> <<>>, n |-> 0]

\* bool(v), as `not v` evaluates it
Truthy(v) ==
    CASE v.t = "str" -> Len(v.s) > 0
      [] v.t = "bytes" -> Len(v.s) > 0
      [] v.t = "int" -> v.n # 0
      [] OTHER -> FALSE

\* isinstance(v, str)
IsStr(v) == v.t = "str"

\* str.lower() on ASCII text
Lower(s) == [i \in 1..Len(s) |-> IF s[i] \in 65..90 THEN s[i] + 32 ELSE s[i]]

SeqsUpTo(A, n) == UNION {[1..k -> A] : k \in 0..n}

Repeat(c, n) == [i \in 1..n |-> c]

-----------------------------------------------------------------------------
(* Exceptions *)

NoExc == [cls |-> "none", msg |-> <<>>]
Exc(cls, tag) == [cls |-> cls, msg |-> <<tag>>]

\* The base classes of the error classes (errors.py): plain Exception classes,
\* none of them a ValueError.
Bases(cls) ==
    CASE cls = "PackageNameError" -> {"PackageNameError", "Exception"}
      [] cls = "RepositoryError" -> {"RepositoryError", "Exception"}
      [] cls = "TestModeError" -> {"TestModeError", "Exception"}
      [] cls = "ValidationError" -> {"ValidationError", "Exception"}
      [] cls = "ValueError" -> {"ValueError", "Exception"}
      [] OTHER -> {}

-----------------------------------------------------------------------------
(* _validate_package_name *)

MaxNameLen == 100

\* the character class [a-zA-Z0-9_\-\.]
InNameClass(c) == c \in (97..122) \cup (65..90) \cup (48..57) \cup {95, 45, 46}

\* re.match(r'^[a-zA-Z0-9_\-\.]+$', s): one or more class characters from the
\* start, then `$`, which matches at the end of the text and also just before
\* a newline that ends the text.
ReMatchName(s) ==
    \E k \in 1..Len(s) :
        /\ \A i \in 1..k : InNameClass(s[i])
        /\ \/ k = Len(s)
           \/ k = Len(s) - 1 /\ s[Len(s)] = 10

ValidatePackageName(pn) ==
    IF ~Truthy(pn) THEN Exc("PackageNameError", "name_empty")
    ELSE IF ~IsStr(pn) THEN Exc("PackageNameError", "name_not_str")
    ELSE IF ~ReMatchName(pn.s) THEN Exc("PackageNameError", "name_invalid_chars")
    ELSE IF Len(pn.s) > MaxNameLen THEN Exc("PackageNameError", "name_too_long")
    ELSE NoExc

-----------------------------------------------------------------------------
(* urlparse: the scheme and the network location, as urllib.parse.urlsplit  *)
(* computes them.  The texts of the model hold no whitespace, control       *)
(* character, digit or `]`, for which versions of the library differ.       *)

\* str.find(c, from): the first position >= from holding a character of cs, 0 if none
Find(u, cs, from) ==
    IF \E i \in from..Len(u) : u[i] \in cs
    THEN CHOOSE i \in from..Len(u) : u[i] \in cs /\ \A j \in from..(i - 1) : u[j] \notin cs
    ELSE 0

IsAsciiAlpha(c) == c \in (97..122) \cup (65..90)

\* scheme_chars: letters, digits and "+-."
InSchemeChars(c) == c \in (97..122) \cup (65..90) \cup (48..57) \cup {43, 45, 46}

\* the scheme split: <<scheme, rest of the url>>
SplitScheme(u) ==
    LET i == Find(u, {58}, 1)
    IN IF i > 1 /\ IsAsciiAlpha(u[1]) /\ \A j \in 1..(i - 1) : InSchemeChars(u[j])
       THEN <<Lower(SubSeq(u, 1, i - 1)), SubSeq(u, i + 1, Len(u))>>
       ELSE <<<<>>, u>>

\* _splitnetloc(url, 2) when the url starts with "//", else no netloc
SplitNetloc(url) ==
    IF Len(url) >= 2 /\ url[1] = 47 /\ url[2] = 47
    THEN LET d == Find(url, {47, 63, 35}, 3)
         IN SubSeq(url, 3, IF d = 0 THEN Len(url) ELSE d - 1)
    ELSE <<>>

HasChar(s, c) == \E i \in 1..Len(s) : s[i] = c

NotParsed == [done |-> FALSE, error |-> FALSE, scheme |-> <<>>, netloc |-> <<>>]

\* urlparse(u): error = TRUE stands for the ValueError("Invalid IPv6 URL")
UrlParse(u) ==
    LET sp == SplitScheme(u)
        netloc == SplitNetloc(sp[2])
    IN IF HasChar(netloc, 91) # HasChar(netloc, 93)
       THEN [done |-> TRUE, error |-> TRUE, scheme |-> <<>>, netloc |-> <<>>]
       ELSE [done |-> TRUE, error |-> FALSE, scheme |-> sp[1], netloc |-> netloc]

-----------------------------------------------------------------------------
(* _validate_repository *)

FsKinds == {"absent", "file", "dir"}

\* mutant: isfile answers like exists
MutPathIsFile(k) == k # "absent"

\* os.path.exists / os.path.isfile on an entry of kind k
PathExists(k) == k # "absent"
PathIsFile(k) == k = "file"

\* mutant: 'ftp' is missing from the list
MutAllowedSchemes ==
    { <<104, 116, 116, 112>>, <<104, 116, 116, 112, 115>>, <<102, 105, 108, 101>> }

\* ['http', 'https', 'ftp', 'file']
AllowedSchemes ==
    { <<104, 116, 116, 112>>, <<104, 116, 116, 112, 115>>,
      <<102, 116, 112>>, <<102, 105, 108, 101>> }

\* mutant: any() in place of all()
MutClassifyUrl(r) == Len(r.scheme) > 0 \/ Len(r.netloc) > 0

\* all([result.scheme, result.netloc])
ClassifyUrl(r) == Len(r.scheme) > 0 /\ Len(r.netloc) > 0

\* `except ValueError as e` around the parse and the checks that follow it
ExceptValueError(exc) ==
    IF "ValueError" \in Bases(exc.cls)
    THEN [cls |-> "RepositoryError", msg |-> <<"repo_bad_format">> \o exc.msg]
    ELSE exc

\* mutant: the path is looked up before the reference is classified
MutCheckParsed(r, k) ==
    IF r.error THEN [exc |-> Exc("ValueError", "invalid_ipv6_url"), stats |-> <<>>]
    ELSE IF Len(r.scheme) > 0 /\ Len(r.netloc) > 0
    THEN [exc |-> IF r.scheme \notin { <<104, 116, 116, 112>>,
                                       <<104, 116, 116, 112, 115>>,
                                       <<102, 116, 112>>, <<102, 105, 108, 101>> }
                  THEN Exc("RepositoryError", "repo_invalid_scheme")
                  ELSE NoExc,
          stats |-> << <<"exists", k>> >>]
    ELSE IF k = "absent"
    THEN [exc |-> Exc("RepositoryError", "repo_file_does_not_exist"),
          stats |-> << <<"exists", k>> >>]
    ELSE IF k # "file"
    THEN [exc |-> Exc("RepositoryError", "repo_not_a_file"),
          stats |-> << <<"exists", k>>, <<"isfile", k>> >>]
    ELSE [exc |-> NoExc, stats |-> << <<"exists", k>>, <<"isfile", k>> >>]

\* the body of the try block, given the parse result: the exception raised and
\* the filesystem calls made
CheckParsed(r, k) ==
    IF r.error THEN [exc |-> Exc("ValueError", "invalid_ipv6_url"), stats |-> <<>>]
    ELSE IF ClassifyUrl(r)
    THEN [exc |-> IF r.scheme \notin AllowedSchemes
                  THEN Exc("RepositoryError", "repo_invalid_scheme")
                  ELSE NoExc,
          stats |-> <<>>]
    ELSE IF ~PathExists(k)
    THEN [exc |-> Exc("RepositoryError", "repo_file_does_not_exist"),
          stats |-> << <<"exists", k>> >>]
    ELSE IF ~PathIsFile(k)
    THEN [exc |-> Exc("RepositoryError", "repo_not_a_file"),
          stats |-> << <<"exists", k>>, <<"isfile", k>> >>]
    ELSE [exc |-> NoExc, stats |-> << <<"exists", k>>, <<"isfile", k>> >>]

\* the whole method: the exception it raises, the value it leaves in is_url
\* (old when the assignment is not reached), the parse result, the filesystem calls
ValidateRepository(repo, old_is_url, k) ==
    IF ~Truthy(repo)
    THEN [exc |-> Exc("RepositoryError", "repo_empty"), is_url |-> old_is_url,
          result |-> NotParsed, stats |-> <<>>]
    ELSE IF ~IsStr(repo)
    THEN [exc |-> Exc("RepositoryError", "repo_not_str"), is_url |-> old_is_url,
          result |-> NotParsed, stats |-> <<>>]
    ELSE LET r == UrlParse(repo.s)
             c == CheckParsed(r, k)
         IN [exc |-> ExceptValueError(c.exc),
             is_url |-> IF r.error THEN old_is_url ELSE ClassifyUrl(r),
             result |-> r, stats |-> c.stats]

-----------------------------------------------------------------------------
(* _validate_test_repo_mode *)

\* valid_modes = ['on', 'off']
ValidModes == { <<111, 110>>, <<111, 102, 102>> }

\* mutant: the accepted mode is stored as given
MutValidateTestRepoMode(mode) ==
    IF ~IsStr(mode)
    THEN [exc |-> Exc("TestModeError", "mode_not_str"), test_repo_mode |-> mode]
    ELSE IF Lower(mode.s) \notin { <<111, 110>>, <<111, 102, 102>> }
    THEN [exc |-> Exc("TestModeError", "mode_invalid"), test_repo_mode |-> mode]
    ELSE [exc |-> NoExc, test_repo_mode |-> mode]

\* the exception raised and the value left in self.test_repo_mode
ValidateTestRepoMode(mode) ==
    IF ~IsStr(mode)
    THEN [exc |-> Exc("TestModeError", "mode_not_str"), test_repo_mode |-> mode]
    ELSE IF Lower(mode.s) \notin ValidModes
    THEN [exc |-> Exc("TestModeError", "mode_invalid"), test_repo_mode |-> mode]
    ELSE [exc |-> NoExc, test_repo_mode |-> Str(Lower(mode.s))]

-----------------------------------------------------------------------------
(* _validate_all *)

\* mutant: the repository is checked before the package name
MutCheckOrder == <<"repository", "package_name", "test_repo_mode">>

\* the calls of the try block, in order
CheckOrder == <<"package_name", "repository", "test_repo_mode">>

\* where the call stands after check number i has passed
AfterCheck(i) == IF i < Len(CheckOrder) THEN CheckOrder[i + 1] ELSE "validated"

CheckIndex(name) == CHOOSE i \in 1..Len(CheckOrder) : CheckOrder[i] = name

\* mutant: RepositoryError is missing from the except clause
MutWrapError(exc) ==
    IF exc.cls \in {"PackageNameError", "TestModeError"}
    THEN [cls |-> "ValidationError", msg |-> <<"validation_error">> \o exc.msg]
    ELSE exc

\* except (PackageNameError, RepositoryError, TestModeError) as e:
\*     raise ValidationError(f"...: {str(e)}")
WrapError(exc) ==
    IF exc.cls \in {"PackageNameError", "RepositoryError", "TestModeError"}
    THEN [cls |-> "ValidationError", msg |-> <<"validation_error">> \o exc.msg]
    ELSE exc

-----------------------------------------------------------------------------
(* to_dict *)

\* 'URL' and 'файл'
LabelUrl == <<85, 82, 76>>
LabelFile == <<1092, 1072, 1081, 1083>>

\* mutant: the two labels are exchanged
MutToDictFields(pn, repo, mode, isurl) ==
    [package_name |-> pn, repository |-> repo, test_repo_mode |-> mode,
     repository_type |-> Str(IF isurl THEN <<1092, 1072, 1081, 1083>> ELSE <<85, 82, 76>>)]

ToDictFields(pn, repo, mode, isurl) ==
    [package_name |-> pn, repository |-> repo, test_repo_mode |-> mode,
     repository_type |-> Str(IF isurl THEN LabelUrl ELSE LabelFile)]

NoSummary == [no_summary |-> TRUE]

-----------------------------------------------------------------------------
(* The calls explored: package names, repository references and modes *)

\* 'a', '.', newline, space
NameAlphabet == {97, 46, 10, 32}

\* number of 'a' between the free head and the free tail of a name
PadLens == {0, 1, 98, 99, 100}

NameTexts ==
    { h \o Repeat(97, p) \o t :
        h \in SeqsUpTo(NameAlphabet, MaxAffixLen),
        p \in PadLens,
        t \in SeqsUpTo(NameAlphabet, MaxAffixLen) }

NonStrings == {None, PyInt(0), PyInt(5), Bytes(<<>>), Bytes(<<111, 110>>)}

\* "", http, https, ftp, file, gopher, HTTP
SchemeTexts ==
    { <<>>,
      <<104, 116, 116, 112>>, <<104, 116, 116, 112, 115>>, <<102, 116, 112>>,
      <<102, 105, 108, 101>>, <<103, 111, 112, 104, 101, 114>>,
      <<72, 84, 84, 80>> }

\* "", ":", "://", "//"
SeparatorTexts == { <<>>, <<58>>, <<58, 47, 47>>, <<47, 47>> }

\* 'x', '/', '['
RestAlphabet == {120, 47, 91}

RepoTexts ==
    { sc \o sep \o r :
        sc \in SchemeTexts, sep \in SeparatorTexts,
        r \in SeqsUpTo(RestAlphabet, MaxRestLen) }

\* 'o', 'n', 'f' in both cases, and 'x'
ModeAlphabet == {111, 79, 110, 78, 102, 70, 120}

ModeTexts == SeqsUpTo(ModeAlphabet, MaxModeLen)

\* "pkg" and "http://x"
GoodName == Str(<<112, 107, 103>>)
GoodRepo == Str(<<104, 116, 116, 112, 58, 47, 47, 120>>)

\* names, repositories and modes combined with one another:
\* "pkg", "", "pkg\n", "p!", None, 5
SomeNames ==
    { GoodName, Str(<<>>), Str(<<112, 107, 103, 10>>), Str(<<112, 33>>),
      None, PyInt(5) }

\* "", b"on", "http://x", "gopher://x", "x", "gopher:x", "//x", "http://["
SomeRepos ==
    { Str(<<>>), Bytes(<<111, 110>>), GoodRepo,
      Str(<<103, 111, 112, 104, 101, 114, 58, 47, 47, 120>>),
      Str(<<120>>), Str(<<103, 111, 112, 104, 101, 114, 58, 120>>),
      Str(<<47, 47, 120>>), Str(<<104, 116, 116, 112, 58, 47, 47, 91>>) }

\* omitted, "ON", "off", "x", None
SomeModes ==
    { Omitted, Str(<<79, 78>>), Str(<<111, 102, 102>>), Str(<<120>>), None }

Call(pn, repo, mode) == [package_name |-> pn, repository |-> repo, test_repo_mode |-> mode]

Calls ==
    {Call(Str(t), GoodRepo, Omitted) : t \in NameTexts}
    \cup {Call(v, GoodRepo, Omitted) : v \in NonStrings}
    \cup {Call(GoodName, Str(t), Omitted) : t \in RepoTexts}
    \cup {Call(GoodName, v, Omitted) : v \in NonStrings}
    \cup {Call(GoodName, GoodRepo, Str(t)) : t \in ModeTexts}
    \cup {Call(GoodName, GoodRepo, v) : v \in NonStrings \cup {Omitted}}
    \cup {Call(pn, repo, mode) : pn \in SomeNames, repo \in SomeRepos, mode \in SomeModes}

-----------------------------------------------------------------------------
(* The constructor *)

\* test_repo_mode: str = "off"
BindMode(arg) == IF arg = Omitted THEN Str(<<111, 102, 102>>) ELSE arg

\* The call is bound and lines 36-39 have assigned the fields; _validate_all
\* is about to run its first check.
Init ==
    /\ args \in Calls
    /\ package_name = args.package_name
    /\ repository = args.repository
    /\ test_repo_mode = BindMode(args.test_repo_mode)
    /\ is_url = FALSE
    /\ pc = CheckOrder[1]
    /\ caught = NoExc
    /\ raised = NoExc
    /\ fs \in FsKinds
    /\ result = NotParsed
    /\ checksRun = <<>>
    /\ statLog = <<>>
    /\ fsAtCheck = "unchecked"
    /\ summary = NoSummary

\* _validate_all after the check `name` ended with `exc`: go on to the next
\* check, or leave with the (wrapped) exception
Proceed(name, exc) ==
    /\ checksRun' = Append(checksRun, <<name, exc.cls>>)
    /\ IF exc = NoExc
       THEN /\ pc' = AfterCheck(CheckIndex(name))
            /\ UNCHANGED <<caught, raised>>
       ELSE /\ pc' = "rejected"
            /\ caught' = exc
            /\ raised' = WrapError(exc)

DoValidatePackageName ==
    /\ pc = "package_name"
    /\ Proceed("package_name", ValidatePackageName(package_name))
    /\ UNCHANGED <<args, package_name, repository, test_repo_mode, is_url, fs,
                   result, statLog, fsAtCheck, summary>>

DoValidateRepository ==
    /\ pc = "repository"
    /\ LET v == ValidateRepository(repository, is_url, fs)
       IN /\ is_url' = v.is_url
          /\ result' = v.result
          /\ statLog' = statLog \o v.stats
          /\ fsAtCheck' = fs
          /\ Proceed("repository", v.exc)
    /\ UNCHANGED <<args, package_name, repository, test_repo_mode, fs, summary>>

DoValidateTestRepoMode ==
    /\ pc = "test_repo_mode"
    /\ LET v == ValidateTestRepoMode(test_repo_mode)
       IN /\ test_repo_mode' = v.test_repo_mode
          /\ Proceed("test_repo_mode", v.exc)
    /\ UNCHANGED <<args, package_name, repository, is_url, fs, result, statLog,
                   fsAtCheck, summary>>

\* to_dict on the constructed object
ToDict ==
    /\ pc = "validated"
    /\ summary' = ToDictFields(package_name, repository, test_repo_mode, is_url)
    /\ UNCHANGED <<args, package_name, repository, test_repo_mode, is_url, pc,
                   caught, raised, fs, result, checksRun, statLog, fsAtCheck>>

\* the environment creates, removes or replaces the entry the repository names
FsChange ==
    /\ \E k \in FsKinds \ {fs} : fs' = k
    /\ UNCHANGED <<args, package_name, repository, test_repo_mode, is_url, pc,
                   caught, raised, result, checksRun, statLog, fsAtCheck, summary>>

Next ==
    \/ DoValidatePackageName
    \/ DoValidateRepository
    \/ DoValidateTestRepoMode
    \/ ToDict
    \/ FsChange

Spec == Init /\ [][Next]_vars

-----------------------------------------------------------------------------
(* What the specification says, in its own terms *)

\* a character of [a-zA-Z0-9_.-]
SpecNameChar(c) ==
    \/ c \in 97..122
    \/ c \in 65..90
    \/ c \in 48..57
    \/ c \in {95, 46, 45}

\* a string of 1..100 characters of that set
SpecNameOk(v) ==
    /\ v.t = "str"
    /\ Len(v.s) >= 1
    /\ Len(v.s) <= 100
    /\ \A i \in 1..Len(v.s) : SpecNameChar(v.s[i])

TextOn == <<111, 110>>
TextOff == <<111, 102, 102>>
TextFile == <<102, 105, 108, 101>>

SpecSchemes == { <<104, 116, 116, 112>>, <<104, 116, 116, 112, 115>>,
                 <<102, 116, 112>>, TextFile }

\* s spells the lowercase word w in some mix of upper and lower case
Spells(s, w) ==
    /\ Len(s) = Len(w)
    /\ \A i \in 1..Len(w) : s[i] = w[i] \/ s[i] = w[i] - 32

\* the normalized form of a mode string: "on", "off", or nothing
SpecModeOf(v) ==
    IF v.t = "str" /\ Spells(v.s, TextOn) THEN Str(TextOn)
    ELSE IF v.t = "str" /\ Spells(v.s, TextOff) THEN Str(TextOff)
    ELSE None

SpecOrder == <<"package_name", "repository", "test_repo_mode">>

SpecErrorOf(check) ==
    CASE check = "package_name" -> "PackageNameError"
      [] check = "repository" -> "RepositoryError"
      [] check = "test_repo_mode" -> "TestModeError"

Terminal == pc \in {"validated", "rejected"}

\* check number i has run / has run and passed / has run and failed
Ran(i) == Len(checksRun) >= i
Passed(i) == Ran(i) /\ checksRun[i][2] = "none"
Failed(i) == Ran(i) /\ checksRun[i][2] # "none"

\* the parse of the repository completed and gave these two components
ParsedOk == result.done /\ ~result.error
HasScheme == Len(result.scheme) > 0
HasNetloc == Len(result.netloc) > 0

-----------------------------------------------------------------------------
(* Claims *)

\* C1: in the terminal state "validated" the four invariants hold together:
\* package_name is a string of 1..100 characters of [a-zA-Z0-9_.-]; the mode
\* is "on" or "off"; if is_url the parsed scheme is http, https, ftp or file;
\* if not is_url the path was a regular file when it was checked.
C1_ValidatedInvariants ==
    pc = "validated" =>
        /\ SpecNameOk(package_name)
        /\ test_repo_mode \in {Str(TextOn), Str(TextOff)}
        /\ is_url => result.scheme \in SpecSchemes
        /\ ~is_url => fsAtCheck = "file"

\* C2: once the package-name check has run on a string, it has passed exactly
\* when the name has 1..100 characters, all of [a-zA-Z0-9_.-], and otherwise
\* it has failed with PackageNameError.
C2_PackageNameValidation ==
    (Ran(1) /\ args.package_name.t = "str") =>
        /\ Passed(1) <=> SpecNameOk(args.package_name)
        /\ Failed(1) => checksRun[1][2] = "PackageNameError"

C4_OneOutcome ==
    /\ raised.cls \in {"none", "ValidationError"}
    /\ pc = "validated" => raised = NoExc
    /\ pc = "rejected" =>
          /\ raised.cls = "ValidationError"
          /\ caught.cls \in {"PackageNameError", "RepositoryError", "TestModeError"}
          /\ raised.msg = <<"validation_error">> \o caught.msg
          /\ summary = NoSummary
    /\ ~Terminal =>
          /\ raised = NoExc
          /\ pc \in {"package_name", "repository", "test_repo_mode"}

C4_Witness ==
    /\ pc = "rejected"
    /\ caught.msg = <<"repo_bad_format", "invalid_ipv6_url">>
    /\ raised.cls = "ValidationError"

\* C5: when the parse of the repository gives a scheme and a network location,
\* the repository check passes exactly when the scheme is http, https, ftp or
\* file, and otherwise fails with the RepositoryError for an invalid scheme.
C5_UrlScheme ==
    (Ran(2) /\ ParsedOk /\ HasScheme /\ HasNetloc) =>
        /\ Passed(2) <=> result.scheme \in SpecSchemes
        /\ Failed(2) => caught = Exc("RepositoryError", "repo_invalid_scheme")

C5_Witness ==
    /\ Failed(2)
    /\ HasScheme /\ HasNetloc
    /\ caught.msg = <<"repo_invalid_scheme">>

\* C6 as stated: for every non-empty repository string not classified as a
\* URL, the check passes exactly when the path is a regular file at the time
\* of the check; an absent path fails with "file does not exist", a directory
\* with "not a file".
C6_Original ==
    (Ran(2) /\ repository.t = "str" /\ Len(repository.s) > 0 /\ ~is_url) =>
        /\ Passed(2) <=> fsAtCheck = "file"
        /\ fsAtCheck = "absent" =>
              caught = Exc("RepositoryError", "repo_file_does_not_exist")
        /\ fsAtCheck = "dir" => caught = Exc("RepositoryError", "repo_not_a_file")

\* C6 amended: the same, for every non-empty repository string whose URL
\* parse completes without an error and that is not classified as a URL.
C6_PathCheck ==
    (Ran(2) /\ repository.t = "str" /\ Len(repository.s) > 0 /\ ParsedOk /\ ~is_url) =>
        /\ Passed(2) <=> fsAtCheck = "file"
        /\ fsAtCheck = "absent" =>
              caught = Exc("RepositoryError", "repo_file_does_not_exist")
        /\ fsAtCheck = "dir" => caught = Exc("RepositoryError", "repo_not_a_file")

C6_Witness ==
    /\ Failed(2)
    /\ ParsedOk /\ ~is_url
    /\ fsAtCheck = "dir"
    /\ caught.msg = <<"repo_not_a_file">>

\* C7: once the mode check has run, a mode given in any mix of cases of "on"
\* or "off" has passed and is stored in lowercase; an omitted mode is stored
\* as "off"; any other string or non-string has failed with TestModeError.
C7_ModeNormalized ==
    Ran(3) =>
        LET given == args.test_repo_mode
            norm == SpecModeOf(given)
        IN /\ given = Omitted => Passed(3) /\ test_repo_mode = Str(TextOff)
           /\ (given # Omitted /\ norm # None) => Passed(3) /\ test_repo_mode = norm
           /\ (given # Omitted /\ norm = None) =>
                 Failed(3) /\ caught.cls = "TestModeError"

C7_Witness ==
    /\ Passed(3)
    /\ args.test_repo_mode = Str(<<79, 78>>)
    /\ test_repo_mode = Str(TextOn)

\* C8 as stated: the summary has exactly the four fields; package_name and
\* repository are the inputs, test_repo_mode the normalized mode, and
\* repository_type is "URL" when is_url and "file" when not.
C8_Original ==
    summary # NoSummary =>
        /\ DOMAIN summary = {"package_name", "repository", "test_repo_mode",
                             "repository_type"}
        /\ summary.package_name = args.package_name
        /\ summary.repository = args.repository
        /\ summary.test_repo_mode = SpecModeOf(BindMode(args.test_repo_mode))
        /\ summary.repository_type = Str(IF is_url THEN <<85, 82, 76>> ELSE TextFile)

\* C8 amended: the same, with repository_type the string "файл" (code points
\* 1092 1072 1081 1083) when is_url is false.
C8_Summary ==
    summary # NoSummary =>
        /\ DOMAIN summary = {"package_name", "repository", "test_repo_mode",
                             "repository_type"}
        /\ summary.package_name = args.package_name
        /\ summary.repository = args.repository
        /\ summary.test_repo_mode = SpecModeOf(BindMode(args.test_repo_mode))
        /\ summary.repository_type =
              Str(IF is_url THEN <<85, 82, 76>> ELSE <<1092, 1072, 1081, 1083>>)

C8_Witness ==
    /\ summary # NoSummary
    /\ ~is_url
    /\ args.test_repo_mode = Str(<<79, 78>>)

\* C9: the filesystem is consulted only by the repository check, only for a
\* non-empty string whose parse is not classified as a URL, and only through
\* exists and isfile; a call with a URL-classified repository and a call
\* rejected at the package-name check consult it not at all.
C9_FilesystemAccess ==
    /\ \A i \in 1..Len(statLog) : statLog[i][1] \in {"exists", "isfile"}
    /\ statLog # <<>> =>
          /\ Ran(2)
          /\ repository.t = "str" /\ Len(repository.s) > 0
          /\ ParsedOk /\ ~(HasScheme /\ HasNetloc)
    /\ (ParsedOk /\ HasScheme /\ HasNetloc) => statLog = <<>>
    /\ (pc = "rejected" /\ caught.cls = "PackageNameError") => statLog = <<>>

C9_Witness ==
    /\ pc = "validated"
    /\ HasScheme /\ HasNetloc
    /\ fs = "file"
    /\ statLog = <<>>

\* C10: is_url is true exactly when the parse gave both a scheme and a network
\* location; a reference that parses with only one of the two is not a URL,
\* and its check passes exactly when the path is a regular file, whatever the
\* scheme.
C10_Classification ==
    /\ is_url <=> (ParsedOk /\ HasScheme /\ HasNetloc)
    /\ (Ran(2) /\ ParsedOk /\ HasScheme # HasNetloc) =>
          /\ ~is_url
          /\ Passed(2) <=> fsAtCheck = "file"

C10_Witness ==
    /\ Passed(2)
    /\ ~is_url
    /\ result.scheme = <<103, 111, 112, 104, 101, 114>>
    /\ result.netloc = <<>>

====
